---- MODULE Spec2Model ----
(***************************************************************************)
(* tgcloudbot: the directory watcher (package file, IWatcher) and the sync *)
(* service (package sync, SyncService) that polls it and relays files to   *)
(* the Telegram uploader.                                                  *)
(*                                                                         *)
(* The file system and the uploader are the environment.  One call of an   *)
(* IWatcher method is one step: the method holds w.mu from its first line  *)
(* to its return, and the files are taken not to be rewritten while one    *)
(* call runs (a file may vanish between the walk and the stat, which is    *)
(* the case the code handles).  The write-only field lastSync is left out. *)
(***************************************************************************)
EXTENDS Integers, Sequences, FiniteSets, TLC

\* ------------------------------------------------------------- bounds
MaxFsOps == 2
MaxEnvOps == 1
MaxPatterns == 2
MaxPollers == 2
MaxTicks == 1
MaxCalls == 3
MaxInterval == 6
MaxBatch == 2

\* ------------------------------------------------------ the file system
DirData == "/data"
DirSub == "/data/sub"
DirMissing == "/missing"
FileA == "/data/a.txt"
FileB == "/data/sub/b.mp3"
FileC == "/data/c.tmp"

Files == {FileA, FileB, FileC}
Dirs == {DirData, DirSub}
\* what a caller may hand to AddDir: directories, a path that does not
\* exist, and the path of a regular file
DirArgs == {DirData, DirSub, DirMissing, FileA}

\* a path as the sequence of its lexical pieces
Tokens(path) ==
    CASE path = DirData -> <<"/", "data">>
      [] path = DirSub -> <<"/", "data", "/", "sub">>
      [] path = DirMissing -> <<"/", "missing">>
      [] path = FileA -> <<"/", "data", "/", "a", ".txt">>
      [] path = FileB -> <<"/", "data", "/", "sub", "/", "b", ".mp3">>
      [] path = FileC -> <<"/", "data", "/", "c", ".tmp">>
      [] OTHER -> <<>>

\* os.FileInfo of a regular file; NoFile is what a failed os.Stat leaves
Sizes == {1, 2}
ModTimes == {1, 2, 3}
Stat == [size : Sizes, modTime : ModTimes]
NoFile == [size |-> -1, modTime |-> -1]
NoRecord == [size |-> -2, modTime |-> -2]

\* the order in which filepath.Walk reaches the regular files: lexical
\* within a directory, depth first
WalkOrder == <<FileA, FileC, FileB>>

Under(path, dirPath) ==
    LET d == Tokens(dirPath) \o <<"/">>
        t == Tokens(path)
    IN  Len(t) > Len(d) /\ SubSeq(t, 1, Len(d)) = d

\* ------------------------------------------------------- regular expressions
\* a compiled pattern: a literal piece sequence, anchored or not
ReTmp == [start |-> FALSE, end |-> TRUE, toks |-> <<".tmp">>]
ReMp3 == [start |-> FALSE, end |-> TRUE, toks |-> <<".mp3">>]
ReData == [start |-> TRUE, end |-> FALSE, toks |-> <<"/", "data", "/">>]
Patterns == {ReTmp, ReMp3, ReData}

Match(re, path) ==
    LET t == Tokens(path)
        n == Len(re.toks)
    IN  \E i \in 1..(Len(t) - n + 1) :
            /\ SubSeq(t, i, i + n - 1) = re.toks
            /\ (re.start => i = 1)
            /\ (re.end => i + n - 1 = Len(t))

\* the nil *regexp.Regexp: calling Match on it dereferences nil
NilRegexp == [start |-> FALSE, end |-> FALSE, toks |-> <<"nil">>]

\* the pattern strings of the environment; "(" does not compile
RegStrings == {"\\.tmp$", "\\.mp3$", "("}

\* regexp.Compile(regString)
Compile(regString) ==
    CASE regString = "\\.tmp$" -> [regex |-> ReTmp, err |-> "nil"]
      [] regString = "\\.mp3$" -> [regex |-> ReMp3, err |-> "nil"]
      [] OTHER -> [regex |-> NilRegexp, err |-> "error parsing regexp"]

\* one of the two loops of config.New: the error of Compile is logged and
\* the result appended, compiled or nil
RECURSIVE NewRegexps(_)
NewRegexps(regStrings) ==
    IF regStrings = <<>> THEN <<>>
    ELSE <<Compile(Head(regStrings)).regex>> \o NewRegexps(Tail(regStrings))

RECURSIVE SeqsUpTo(_, _)
SeqsUpTo(S, n) ==
    IF n = 0 THEN {<<>>}
    ELSE LET shorter == SeqsUpTo(S, n - 1)
         IN  shorter \cup {Append(s, x) : s \in shorter, x \in S}

VARIABLES
    fs,               \* Files -> Stat or NoFile: the regular files on disk
    fsOps,            \* how many times the environment has changed fs
    watchedDirs,      \* IWatcher.watchedDirs: the keys mapped to true
    watchedFiles,     \* IWatcher.watchedFiles: path -> (size, modTime)
    whitelistRegexp,  \* IWatcher.whitelistRegexp
    blacklistRegexp,  \* IWatcher.blacklistRegexp
    wmu,              \* IWatcher.mu is held
    last,             \* what the step just taken did: the calls it made
    lastReturned,     \* per file, the stat of the last call that returned it
    prevStat,         \* per file, the stat the previous call got (NoFile: none)
    registered,       \* the paths some AddDir call has returned nil for
    ctxDone,          \* SyncService.ctx: s.ctx.Done() is closed
    wg,               \* SyncService.wg: the counter
    mu,               \* SyncService.mu: the thread holding it, or NoThread
    pollers,          \* the goroutines StartContinuousSync has started
    threads,          \* the goroutines calling the service, and their calls
    calls,            \* how many calls of main have registered their directory
    stopReturned,     \* some Stop() call has returned
    chatID            \* SyncService.chatID

watcherVars == <<watchedDirs, watchedFiles, whitelistRegexp, blacklistRegexp>>
watcherLock == <<wmu>>
ghostVars == <<last, lastReturned, prevStat, registered>>
serviceVars == <<ctxDone, wg, mu, pollers, threads, calls, stopReturned, chatID>>
vars == <<fs, fsOps, watcherVars, watcherLock, ghostVars, serviceVars>>

Pollers == 1..MaxPollers
\* the goroutines that call the service: main, which starts the syncs, and
\* the one that handles the termination signal; either may call Stop
Main == "main"
Threads == {Main, "signal"}
NoThread == "none"

\* the chat ids a service may be constructed with
ChatMain == "-1001"
ChatIDs == {ChatMain, "@backup"}

\* ------------------------------------------------------------ filter policy
RECURSIVE blacklistLoop(_, _)
blacklistLoop(res, filePath) ==
    IF res = <<>> THEN FALSE
    ELSE IF Match(Head(res), filePath) THEN Match(Head(res), filePath)
    ELSE blacklistLoop(Tail(res), filePath)

isBlacklisted(filePath) == blacklistLoop(blacklistRegexp, filePath)

RECURSIVE whitelistLoop(_, _, _)
whitelistLoop(res, filePath, whitelistMatched) ==
    IF res = <<>> THEN whitelistMatched
    ELSE whitelistLoop(Tail(res), filePath,
                       whitelistMatched /\ Match(Head(res), filePath))

\* a slip: the flag is overwritten by each pattern, so the allow set is
\* decided by its last pattern alone
isWhitelisted_LastOnly(filePath) ==
    IF whitelistRegexp = <<>> THEN TRUE
    ELSE Match(whitelistRegexp[Len(whitelistRegexp)], filePath)

isWhitelisted(filePath) == whitelistLoop(whitelistRegexp, filePath, TRUE)

\* the loop of isBlacklisted reaches a nil pattern: every pattern is
\* matched until one matches
RECURSIVE blacklistPanics(_, _)
blacklistPanics(res, filePath) ==
    IF res = <<>> THEN FALSE
    ELSE IF Head(res) = NilRegexp THEN TRUE
    ELSE IF Match(Head(res), filePath) THEN FALSE
    ELSE blacklistPanics(Tail(res), filePath)

\* the loop of isWhitelisted reaches a nil pattern: re.Match is evaluated
\* as long as whitelistMatched is true
RECURSIVE whitelistPanics(_, _, _)
whitelistPanics(res, filePath, whitelistMatched) ==
    IF res = <<>> THEN FALSE
    ELSE IF ~whitelistMatched THEN FALSE
    ELSE IF Head(res) = NilRegexp THEN TRUE
    ELSE whitelistPanics(Tail(res), filePath, Match(Head(res), filePath))

\* the condition of the `continue` in GetUpdatedFiles panics: isWhitelisted
\* is called when isBlacklisted has returned false
SkippedPanics(filePath) ==
    \/ blacklistPanics(blacklistRegexp, filePath)
    \/ /\ ~blacklistLoop(blacklistRegexp, filePath)
       /\ whitelistPanics(whitelistRegexp, filePath, TRUE)

\* a slip: the deny check is dropped
Skipped_NoDeny(filePath) == ~isWhitelisted(filePath)

\* the condition of the `continue` in GetUpdatedFiles
Skipped(filePath) == isBlacklisted(filePath) \/ ~isWhitelisted(filePath)

\* ------------------------------------------------------------------ AddDir
\* os.Stat(path) succeeds
StatOk(path) == path \in Dirs \/ (path \in Files /\ fs[path] # NoFile)

\* info.IsDir()
IsDir(path) == path \in Dirs

\* a slip: the "already watching" branch reports an error
AddDirErr_AlreadyIsError(path) ==
    IF path \in watchedDirs THEN "already watching"
    ELSE IF ~StatOk(path) THEN "failed to stat directory"
    ELSE IF ~IsDir(path) THEN "path is not a directory"
    ELSE "nil"

\* a slip: the kind of the path is not checked
AddDirErr_NoDirCheck(path) ==
    IF path \in watchedDirs THEN "nil"
    ELSE IF ~StatOk(path) THEN "failed to stat directory"
    ELSE "nil"

\* the error AddDir returns
AddDirErr(path) ==
    IF path \in watchedDirs THEN "nil"
    ELSE IF ~StatOk(path) THEN "failed to stat directory"
    ELSE IF ~IsDir(path) THEN "path is not a directory"
    ELSE "nil"

\* watchedDirs after AddDir
AddDirDirs(path) ==
    IF AddDirErr(path) = "nil" THEN watchedDirs \cup {path} ELSE watchedDirs

AddDirGhost(path) ==
    [called |-> TRUE, path |-> path, err |-> AddDirErr(path),
     dirsBefore |-> watchedDirs, filesBefore |-> watchedFiles,
     pollersBefore |-> pollers]

\* ---------------------------------------------------------- GetUpdatedFiles
scanDirectory(dirPath) ==
    SelectSeq(WalkOrder, LAMBDA f : fs[f] # NoFile /\ Under(f, dirPath))

\* the callback handed to filepath.Walk, called with the error of a path
\* that cannot be accessed, the root of the walk or an entry below it:
\* return nil
WalkFn(path, dirPath) == "nil"

\* the error of filepath.Walk: what the callback answers for a root that
\* cannot be accessed, nil once the walk is through
scanDirectoryErr(dirPath) ==
    IF StatOk(dirPath) THEN "nil" ELSE WalkFn(dirPath, dirPath)

\* the paths scanDirectory collects when the entries of `denied` cannot
\* be accessed: the callback returns nil for them and the walk goes on
scanDirectoryFiles(dirPath, denied) ==
    SelectSeq(scanDirectory(dirPath),
              LAMBDA f : f \notin denied /\ WalkFn(f, dirPath) = "nil")

RECURSIVE ScanAll(_)
ScanAll(order) ==
    IF order = <<>> THEN <<>>
    ELSE scanDirectory(Head(order)) \o ScanAll(Tail(order))

\* a slip: >= in place of After
Modified_NotBefore(info, watched) ==
    info.modTime >= watched.modTime \/ info.size # watched.size

\* a slip: the size is not compared
Modified_TimeOnly(info, watched) == info.modTime > watched.modTime

\* info.ModTime().After(watched.modTime) || info.Size() != watched.size
Modified(info, watched) ==
    info.modTime > watched.modTime \/ info.size # watched.size

\* a slip: a new file is reported and its record is not stored
DiffStep_NoRecord(st, filePath, info) ==
    IF info = NoFile THEN st
    ELSE IF Skipped(filePath) THEN st
    ELSE IF st.watched[filePath] = NoRecord
    THEN [st EXCEPT !.files = Append(@, filePath)]
    ELSE IF Modified(info, st.watched[filePath])
    THEN [watched |-> [st.watched EXCEPT ![filePath] = info],
          files |-> Append(st.files, filePath)]
    ELSE st

\* a slip: a reported path is put at the front of the list
DiffStep_Prepend(st, filePath, info) ==
    IF info = NoFile THEN st
    ELSE IF Skipped(filePath) THEN st
    ELSE IF st.watched[filePath] = NoRecord
            \/ Modified(info, st.watched[filePath])
    THEN [watched |-> [st.watched EXCEPT ![filePath] = info],
          files |-> <<filePath>> \o st.files]
    ELSE st

\* a slip: a modified file is reported and its record is left as it was
DiffStep_NoUpdate(st, filePath, info) ==
    IF info = NoFile THEN st
    ELSE IF Skipped(filePath) THEN st
    ELSE IF st.watched[filePath] = NoRecord
    THEN [watched |-> [st.watched EXCEPT ![filePath] = info],
          files |-> Append(st.files, filePath)]
    ELSE IF Modified(info, st.watched[filePath])
    THEN [st EXCEPT !.files = Append(@, filePath)]
    ELSE st

\* a slip: the record of a path whose stat fails is dropped
DiffStep_ForgetGone(st, filePath, info) ==
    IF info = NoFile
    THEN [st EXCEPT !.watched = [@ EXCEPT ![filePath] = NoRecord]]
    ELSE IF Skipped(filePath) THEN st
    ELSE IF st.watched[filePath] = NoRecord
            \/ Modified(info, st.watched[filePath])
    THEN [watched |-> [st.watched EXCEPT ![filePath] = info],
          files |-> Append(st.files, filePath)]
    ELSE st

\* a slip: a path whose stat fails is reported
DiffStep_ReportGone(st, filePath, info) ==
    IF info = NoFile THEN [st EXCEPT !.files = Append(@, filePath)]
    ELSE IF Skipped(filePath) THEN st
    ELSE IF st.watched[filePath] = NoRecord
            \/ Modified(info, st.watched[filePath])
    THEN [watched |-> [st.watched EXCEPT ![filePath] = info],
          files |-> Append(st.files, filePath)]
    ELSE st

\* a slip: a path the filters reject is recorded, though not reported
DiffStep_RecordSkipped(st, filePath, info) ==
    IF info = NoFile THEN st
    ELSE IF Skipped(filePath)
    THEN [st EXCEPT !.watched = [@ EXCEPT ![filePath] = info]]
    ELSE IF st.watched[filePath] = NoRecord
            \/ Modified(info, st.watched[filePath])
    THEN [watched |-> [st.watched EXCEPT ![filePath] = info],
          files |-> Append(st.files, filePath)]
    ELSE st

\* the body of the inner loop for one scanned path
DiffStep(st, filePath, info) ==
    IF info = NoFile THEN st
    ELSE IF Skipped(filePath) THEN st
    ELSE IF st.watched[filePath] = NoRecord
    THEN [watched |-> [st.watched EXCEPT ![filePath] = info],
          files |-> Append(st.files, filePath)]
    ELSE IF Modified(info, st.watched[filePath])
    THEN [watched |-> [st.watched EXCEPT ![filePath] = info],
          files |-> Append(st.files, filePath)]
    ELSE st

RECURSIVE DiffLoop(_, _, _)
DiffLoop(st, visits, stat) ==
    IF visits = <<>> THEN st
    ELSE DiffLoop(DiffStep(st, Head(visits), stat[Head(visits)]),
                  Tail(visits), stat)

\* the orders in which `range w.watchedDirs` may yield the keys
DirOrders ==
    {o \in SeqsUpTo(watchedDirs, Cardinality(watchedDirs)) :
        /\ Len(o) = Cardinality(watchedDirs)
        /\ \A i, j \in 1..Len(o) : i # j => o[i] # o[j]}

\* the files on disk once the files of `gone` have vanished
Without(gone) == [f \in Files |-> IF f \in gone THEN NoFile ELSE fs[f]]

\* a slip: the result is computed from the records and the records are
\* left as they were, as when the pass runs outside the lock on a copy
Diff_LostUpdate(order, gone) ==
    [watched |-> watchedFiles,
     files |-> DiffLoop([watched |-> watchedFiles, files |-> <<>>],
                        ScanAll(order), Without(gone)).files]

\* what one call returns and leaves, the directories ranged in `order` and
\* the files of `gone` vanishing between the walk and their stat
Diff(order, gone) ==
    DiffLoop([watched |-> watchedFiles, files |-> <<>>],
             ScanAll(order), Without(gone))

DiffGhost(order, gone) ==
    [called |-> TRUE,
     files |-> Diff(order, gone).files,
     visits |-> ScanAll(order),
     stat |-> Without(gone),
     before |-> watchedFiles,
     returnedBefore |-> lastReturned,
     statBefore |-> prevStat,
     dirs |-> watchedDirs,
     by |-> "watcher", whileDone |-> FALSE, err |-> "nil"]

\* the part of `last` a GetUpdatedFiles call fills; lastDiff is defined below

Range(s) == {s[i] : i \in 1..Len(s)}

Returned(order, gone) ==
    [f \in Files |->
        IF f \in Range(Diff(order, gone).files) THEN Without(gone)[f]
        ELSE lastReturned[f]]

\* a path is stat'ed by the call when a ranged directory yields it and it
\* has not vanished
Seen(order, gone) ==
    [f \in Files |->
        IF f \in Range(ScanAll(order)) /\ f \notin gone THEN fs[f]
        ELSE NoFile]

\* the files that may vanish during one call, the environment changing the
\* files at most `limit` times in all
GoneUpTo(limit) == {g \in SUBSET Files :
                       /\ Cardinality(g) <= 1
                       /\ fsOps + Cardinality(g) <= limit
                       /\ \A f \in g : fs[f] # NoFile}

GoneChoices == GoneUpTo(MaxFsOps)

\* ------------------------------------------------------------------- Init
NoPoller ==
    [pc |-> "none", dir |-> "", files |-> <<>>, idx |-> 0,
     called |-> <<>>, failed |-> {}, ticks |-> 0, late |-> 0,
     passedDone |-> FALSE, asked |-> 0, interval |-> 0]

IdleThread ==
    [pc |-> "idle", op |-> "none", dir |-> "", files |-> <<>>, idx |-> 0,
     called |-> <<>>, failed |-> {}, interval |-> 0, afterStop |-> FALSE]

NoAdd ==
    [called |-> FALSE, path |-> "", err |-> "nil", dirsBefore |-> {},
     filesBefore |-> [f \in Files |-> NoRecord],
     pollersBefore |-> [p \in Pollers |-> NoPoller]]

NoDiff ==
    [called |-> FALSE, files |-> <<>>, visits |-> <<>>,
     stat |-> [f \in Files |-> NoFile],
     before |-> [f \in Files |-> NoRecord],
     returnedBefore |-> [f \in Files |-> NoFile],
     statBefore |-> [f \in Files |-> NoFile],
     dirs |-> {}, by |-> "", whileDone |-> FALSE, err |-> "nil"]

\* an Uploader call begun: by whom, for which path, with the context
\* cancelled or not, and whether it succeeded
NoSend ==
    [called |-> FALSE, by |-> "", dir |-> "", path |-> "", late |-> FALSE,
     ok |-> TRUE]

\* a service call returned
NoRet ==
    [called |-> FALSE, by |-> "", op |-> "", dir |-> "", err |-> "nil",
     files |-> <<>>, syncFiled |-> <<>>, failed |-> {}]

\* a syncDirectoryOnce call of a poller returned
NoCycle ==
    [called |-> FALSE, by |-> 0, err |-> "nil", files |-> <<>>,
     syncFiled |-> <<>>, failed |-> {}, cancelled |-> FALSE]

\* a SyncFile call made directly: its error and the Uploader calls it made
NoSyncFile == [called |-> FALSE, filePath |-> <<>>, err |-> "nil", bot |-> <<>>]

NoScan == [called |-> FALSE, dir |-> "", denied |-> {}, files |-> <<>>,
           err |-> "nil"]

NoFilter == [called |-> FALSE, path |-> "", panic |-> FALSE, skipped |-> FALSE]

NoLast ==
    [add |-> NoAdd, diff |-> NoDiff, send |-> NoSend, ret |-> NoRet,
     cycle |-> NoCycle, syncFile |-> NoSyncFile, scan |-> NoScan,
     filter |-> NoFilter]

lastAdd == last.add
lastDiff == last.diff
lastSend == last.send
lastRet == last.ret
lastCycle == last.cycle
lastSyncFile == last.syncFile
lastScan == last.scan
lastFilter == last.filter

\* NewWatcher
InitWatcher ==
    /\ wmu = FALSE
    /\ watchedDirs = {}
    /\ watchedFiles = [f \in Files |-> NoRecord]
    /\ last = NoLast
    /\ lastReturned = [f \in Files |-> NoFile]
    /\ prevStat = [f \in Files |-> NoFile]
    /\ registered = {}

\* NewSyncService
NewSyncService(id) ==
    /\ chatID = id
    /\ ctxDone = FALSE
    /\ wg = 0
    /\ mu = NoThread
    /\ pollers = [p \in Pollers |-> NoPoller]
    /\ threads = [t \in Threads |-> IdleThread]
    /\ calls = 0
    /\ stopReturned = FALSE

InitService == NewSyncService(ChatMain)

\* the filter sets the watcher is constructed with
FilterChoices == {<<<<>>, <<ReTmp>>>>, <<<<ReMp3>>, <<>>>>}

Init ==
    /\ fs = [f \in Files |-> [size |-> 1, modTime |-> 2]]
    /\ fsOps = 0
    /\ \E c \in FilterChoices :
        whitelistRegexp = c[1] /\ blacklistRegexp = c[2]
    /\ InitWatcher
    /\ InitService

\* ------------------------------------------------------------ environment
FsWrite(f, size, modTime) ==
    /\ fsOps < MaxFsOps
    /\ fs[f] # [size |-> size, modTime |-> modTime]
    /\ fs' = [fs EXCEPT ![f] = [size |-> size, modTime |-> modTime]]
    /\ fsOps' = fsOps + 1
    /\ last' = NoLast
    /\ UNCHANGED <<watcherVars, wmu, lastReturned, prevStat, registered>>
    /\ UNCHANGED serviceVars

FsRemove(f) ==
    /\ fsOps < MaxFsOps
    /\ fs[f] # NoFile
    /\ fs' = [fs EXCEPT ![f] = NoFile]
    /\ fsOps' = fsOps + 1
    /\ last' = NoLast
    /\ UNCHANGED <<watcherVars, wmu, lastReturned, prevStat, registered>>
    /\ UNCHANGED serviceVars

\* ------------------------------------------------------------- the watcher
\* a slip: GetUpdatedFiles returns with w.mu held
GetUpdatedFilesUnlock_Missing == TRUE

\* w.mu once GetUpdatedFiles has returned: defer w.mu.Unlock()
GetUpdatedFilesUnlock == FALSE

\* what one AddDir call does to the watcher, from w.mu.Lock() to the
\* deferred w.mu.Unlock()
AddDirCall(path) ==
    /\ ~wmu
    /\ wmu' = FALSE
    /\ watchedDirs' = AddDirDirs(path)
    /\ registered' = registered \cup
                        (IF AddDirErr(path) = "nil" THEN {path} ELSE {})
    /\ UNCHANGED <<fs, fsOps, watchedFiles, whitelistRegexp, blacklistRegexp,
                   lastReturned, prevStat>>

\* what one GetUpdatedFiles call does to the watcher
GetUpdatedFilesCall(order, gone) ==
    /\ ~wmu
    /\ wmu' = GetUpdatedFilesUnlock
    /\ watchedFiles' = Diff(order, gone).watched
    /\ lastReturned' = Returned(order, gone)
    /\ prevStat' = Seen(order, gone)
    /\ fs' = Without(gone)
    /\ fsOps' = fsOps + Cardinality(gone)
    /\ UNCHANGED <<watchedDirs, whitelistRegexp, blacklistRegexp, registered>>

\* a step that calls no watcher method
NoWatcherCall ==
    UNCHANGED <<fs, fsOps, watcherVars, wmu, lastReturned, prevStat,
                registered>>

\* the watcher called directly
AddDir(path) ==
    /\ AddDirCall(path)
    /\ last' = [NoLast EXCEPT !.add = AddDirGhost(path)]
    /\ UNCHANGED serviceVars

GetUpdatedFiles(order, gone) ==
    /\ GetUpdatedFilesCall(order, gone)
    /\ last' = [NoLast EXCEPT !.diff = DiffGhost(order, gone)]
    /\ UNCHANGED serviceVars

NextWatcher ==
    \/ \E f \in Files, s \in Sizes, m \in ModTimes : FsWrite(f, s, m)
    \/ \E f \in Files : FsRemove(f)
    \/ \E path \in DirArgs : AddDir(path)
    \/ \E order \in DirOrders, gone \in GoneChoices : GetUpdatedFiles(order, gone)

SpecWatcher == Init /\ [][NextWatcher]_vars

\* the roots scanDirectory is handed, and the entries below a root that
\* cannot be accessed during one walk
ScanArgs == Dirs \cup {DirMissing}

DeniedChoices(dirPath) ==
    {d \in SUBSET Files :
        /\ Cardinality(d) <= 1
        /\ \A f \in d : fs[f] # NoFile /\ Under(f, dirPath)}

\* one scanDirectory call: it reads the disk and changes nothing
ScanDirectory(dirPath, denied) ==
    /\ last' = [NoLast EXCEPT !.scan =
           [called |-> TRUE, dir |-> dirPath, denied |-> denied,
            files |-> scanDirectoryFiles(dirPath, denied),
            err |-> scanDirectoryErr(dirPath)]]
    /\ NoWatcherCall
    /\ UNCHANGED serviceVars

\* the scans of a disk that changes
NextScan ==
    \/ \E f \in Files, s \in Sizes, m \in ModTimes : FsWrite(f, s, m)
    \/ \E f \in Files : FsRemove(f)
    \/ \E dirPath \in ScanArgs :
          \E denied \in DeniedChoices(dirPath) : ScanDirectory(dirPath, denied)

SpecScan == Init /\ [][NextScan]_vars

\* the filter policy on every pair of pattern sets, the files at rest
InitFilter ==
    /\ fs = [f \in Files |-> [size |-> 1, modTime |-> 2]]
    /\ fsOps = MaxFsOps
    /\ whitelistRegexp \in SeqsUpTo(Patterns, MaxPatterns)
    /\ blacklistRegexp \in SeqsUpTo(Patterns, MaxPatterns)
    /\ InitWatcher
    /\ InitService

NextFilter ==
    \/ \E path \in Dirs : AddDir(path)
    \/ \E order \in DirOrders : GetUpdatedFiles(order, {})

SpecFilter == InitFilter /\ [][NextFilter]_vars

\* the watcher constructed with the pattern sets config.New makes of the
\* pattern strings of the environment
InitConfig ==
    /\ fs = [f \in Files |-> [size |-> 1, modTime |-> 2]]
    /\ fsOps = MaxFsOps
    /\ \E whitelist \in SeqsUpTo(RegStrings, MaxPatterns) :
          whitelistRegexp = NewRegexps(whitelist)
    /\ \E blacklist \in SeqsUpTo(RegStrings, MaxPatterns) :
          blacklistRegexp = NewRegexps(blacklist)
    /\ InitWatcher
    /\ InitService

\* GetUpdatedFiles evaluates the filters on one scanned path
FilterPath(filePath) ==
    /\ last' = [NoLast EXCEPT !.filter =
           [called |-> TRUE, path |-> filePath,
            panic |-> SkippedPanics(filePath),
            skipped |-> IF SkippedPanics(filePath) THEN FALSE
                        ELSE Skipped(filePath)]]
    /\ NoWatcherCall
    /\ UNCHANGED serviceVars

NextConfig == \E filePath \in Files : FilterPath(filePath)

SpecConfig == InitConfig /\ [][NextConfig]_vars

\* ---------------------------------------------------------------- SyncFile
\* A path handed to SyncFile is a string, here the sequence of its characters.
Upper == <<"A", "B", "C", "D", "E", "F", "G", "H", "I", "J", "K", "L", "M",
           "N", "O", "P", "Q", "R", "S", "T", "U", "V", "W", "X", "Y", "Z">>
Lower == <<"a", "b", "c", "d", "e", "f", "g", "h", "i", "j", "k", "l", "m",
           "n", "o", "p", "q", "r", "s", "t", "u", "v", "w", "x", "y", "z">>

\* a slip: the extension is compared as written
ToLower_Identity(str) == str

\* strings.ToLower
ToLower(str) ==
    [i \in DOMAIN str |->
        IF \E k \in DOMAIN Upper : Upper[k] = str[i]
        THEN Lower[CHOOSE k \in DOMAIN Upper : Upper[k] = str[i]]
        ELSE str[i]]

\* filepath.Ext: the scan from the end for a dot, stopped by a separator
RECURSIVE ExtFrom(_, _)
ExtFrom(path, i) ==
    IF i < 1 \/ path[i] = "/" THEN <<>>
    ELSE IF path[i] = "." THEN SubSeq(path, i, Len(path))
    ELSE ExtFrom(path, i - 1)

Ext(path) == ExtFrom(path, Len(path))

\* filepath.Base: trailing separators dropped, then the last element
RECURSIVE StripSlashes(_)
StripSlashes(path) ==
    IF Len(path) > 0 /\ path[Len(path)] = "/"
    THEN StripSlashes(SubSeq(path, 1, Len(path) - 1))
    ELSE path

RECURSIVE LastElement(_, _)
LastElement(path, i) ==
    IF i < 1 \/ path[i] = "/" THEN SubSeq(path, i + 1, Len(path))
    ELSE LastElement(path, i - 1)

Base(path) ==
    IF path = <<>> THEN <<".">>
    ELSE IF StripSlashes(path) = <<>> THEN <<"/">>
    ELSE LastElement(StripSlashes(path), Len(StripSlashes(path)))

\* the cases of the switch on ext
AudioExt == {<<".", "m", "p", "3">>, <<".", "w", "a", "v">>, <<".", "o", "g", "g">>,
             <<".", "m", "4", "a">>, <<".", "f", "l", "a", "c">>,
             <<".", "a", "a", "c">>, <<".", "o", "p", "u", "s">>}
PhotoExt == {<<".", "j", "p", "g">>, <<".", "j", "p", "e", "g">>,
             <<".", "p", "n", "g">>, <<".", "g", "i", "f">>,
             <<".", "w", "e", "b", "p">>, <<".", "b", "m", "p">>}
VideoExt == {<<".", "m", "p", "4">>, <<".", "a", "v", "i">>, <<".", "m", "o", "v">>,
             <<".", "m", "k", "v">>, <<".", "w", "e", "b", "m">>,
             <<".", "f", "l", "v">>, <<".", "w", "m", "v">>}

BotMethod(ext) ==
    IF ext \in AudioExt THEN "SendAudio"
    ELSE IF ext \in PhotoExt THEN "SendPhoto"
    ELSE IF ext \in VideoExt THEN "SendVideo"
    ELSE "SendDocument"

Caption(filePath) == <<"F", "i", "l", "e", ":", " ">> \o Base(filePath)

\* the calls SyncFile makes on s.bot
BotCalls(filePath) ==
    IF filePath = <<>> THEN <<>>
    ELSE <<[method |-> BotMethod(ToLower(Ext(filePath))), chatID |-> chatID,
            filePath |-> filePath, caption |-> Caption(filePath)]>>

SyncFileErr(filePath, ok) ==
    IF filePath = <<>> THEN "filePath cannot be empty"
    ELSE IF ok THEN "nil"
    ELSE CASE BotMethod(ToLower(Ext(filePath))) = "SendAudio" -> "failed to send audio"
           [] BotMethod(ToLower(Ext(filePath))) = "SendPhoto" -> "failed to send photo"
           [] BotMethod(ToLower(Ext(filePath))) = "SendVideo" -> "failed to send video"
           [] OTHER -> "failed to send document"

\* SyncFile called on its own; the Uploader call succeeds or fails
SyncFile(filePath, ok) ==
    /\ last' = [NoLast EXCEPT !.syncFile =
           [called |-> TRUE, filePath |-> filePath,
            err |-> SyncFileErr(filePath, ok), bot |-> BotCalls(filePath)]]
    /\ NoWatcherCall
    /\ UNCHANGED serviceVars

\* the paths SyncFile is tried on: a directory part, a stem and an ending
SyncFileDirs == {<<>>, <<"/", "d", ".", "m", "p", "3", "/">>}
SyncFileStems == {<<"a">>, <<"a", ".", "p", "n", "g">>, <<>>}
SyncFileEndings ==
    {<<".", "m", "p", "3">>, <<".", "w", "a", "v">>, <<".", "o", "g", "g">>,
     <<".", "m", "4", "a">>, <<".", "f", "l", "a", "c">>,
     <<".", "a", "a", "c">>, <<".", "o", "p", "u", "s">>,
     <<".", "j", "p", "g">>, <<".", "j", "p", "e", "g">>,
     <<".", "p", "n", "g">>, <<".", "g", "i", "f">>,
     <<".", "w", "e", "b", "p">>, <<".", "b", "m", "p">>,
     <<".", "m", "p", "4">>, <<".", "a", "v", "i">>, <<".", "m", "o", "v">>,
     <<".", "m", "k", "v">>, <<".", "w", "e", "b", "m">>,
     <<".", "f", "l", "v">>, <<".", "w", "m", "v">>, <<".", "t", "x", "t">>,
     <<".", "t", "m", "p">>, <<".", "m", "p">>, <<".", "m", "p", "3", "x">>,
     <<".", "g", "z">>, <<".", "M", "P", "3">>, <<".", "M", "p", "3">>,
     <<".", "J", "P", "E", "G">>, <<".", "P", "n", "g">>,
     <<".", "W", "E", "B", "M">>, <<".", "m", "K", "v">>,
     <<".", "F", "L", "A", "C">>, <<".", "T", "x", "t">>, <<>>, <<".">>}
SyncFilePaths ==
    {d \o st \o e : d \in SyncFileDirs, st \in SyncFileStems,
                     e \in SyncFileEndings}
    \cup {<<>>, <<"/">>, <<"/", "d", "a", "t", "a", "/">>,
          <<"/", "d", "a", "t", "a", "/", "a", ".", "/">>}

InitSyncFile ==
    /\ fs = [f \in Files |-> [size |-> 1, modTime |-> 2]]
    /\ fsOps = 0
    /\ whitelistRegexp = <<>>
    /\ blacklistRegexp = <<>>
    /\ InitWatcher
    /\ \E id \in ChatIDs : NewSyncService(id)

NextSyncFile ==
    \E filePath \in SyncFilePaths, ok \in BOOLEAN : SyncFile(filePath, ok)

SpecSyncFile == InitSyncFile /\ [][NextSyncFile]_vars

\* ------------------------------------------------------------- the service
\* where the loop over the batch goes once SyncFile has returned, and what
\* the cycle returns when it ends there; a slip: the error ends the cycle
AfterSyncFile_ReturnsError(files, idx, ok) ==
    IF ~ok THEN [pc |-> "end", err |-> "failed to send"]
    ELSE IF idx + 1 > Len(files) THEN [pc |-> "end", err |-> "nil"]
    ELSE [pc |-> "loop", err |-> "none"]

\* `continue` after a failed SyncFile, `return nil` after the last path
AfterSyncFile(files, idx, ok) ==
    IF idx + 1 > Len(files) THEN [pc |-> "end", err |-> "nil"]
    ELSE [pc |-> "loop", err |-> "none"]

\* a slip: the loops do not test the path
EmptyPath_Never(filePath) == FALSE

\* if filePath == "" { continue }
EmptyPath(filePath) == filePath = ""

\* a slip: the loop gives up at its first check, shutdown or not
LoopCancelled_Always == TRUE

\* a slip: the loop does not look at the context
LoopCancelled_Never == FALSE

\* the select on s.ctx.Done() at the top of the loop of syncDirectoryOnce
LoopCancelled == ctxDone

Started == {p \in Pollers : pollers[p].pc # "none"}
Spawning == {t \in Threads : threads[t].pc = "go"}

\* a GetUpdatedFiles call made by the service: by a poller or by the
\* caller of SyncDirectory, with the context cancelled or not
DiffBy(who, order, gone) ==
    [DiffGhost(order, gone) EXCEPT !.by = who, !.whileDone = ctxDone]

Ret(t, op, dirPath, err) ==
    [NoRet EXCEPT !.called = TRUE, !.by = t, !.op = op, !.dir = dirPath,
                  !.err = err]

\* the first lines of StartContinuousSync and SyncDirectory: the check of
\* dirPath and the AddDir call; on success the call goes on at `pc`, with
\* the interval it was given (SyncDirectory has none)
Register(t, op, dirPath, interval, pc) ==
    /\ t = Main
    /\ threads[t].pc = "idle"
    /\ calls < MaxCalls
    /\ IF dirPath = ""
       THEN /\ NoWatcherCall
            /\ last' = [NoLast EXCEPT
                            !.ret = Ret(t, op, dirPath, "dirPath cannot be empty")]
            /\ UNCHANGED <<threads, calls>>
       ELSE /\ AddDirCall(dirPath)
            /\ IF AddDirErr(dirPath) = "nil"
               THEN /\ last' = [NoLast EXCEPT !.add = AddDirGhost(dirPath)]
                    /\ threads' = [threads EXCEPT ![t] =
                           [IdleThread EXCEPT !.pc = pc, !.op = op,
                                              !.dir = dirPath,
                                              !.interval = interval,
                                              !.afterStop = stopReturned]]
                    /\ calls' = calls + 1
               ELSE /\ last' = [NoLast EXCEPT
                           !.add = AddDirGhost(dirPath),
                           !.ret = Ret(t, op, dirPath,
                                       "failed to add directory to watcher")]
                    /\ UNCHANGED <<threads, calls>>

\* a slip: the wait group is incremented before the directory is registered
StartContinuousSync_AddFirst(t, dirPath, interval) ==
    /\ Cardinality(Started) + Cardinality(Spawning) < MaxPollers
    /\ Register(t, "StartContinuousSync", dirPath, interval, "go")
    /\ wg' = wg + 1
    /\ UNCHANGED <<chatID, ctxDone, mu, pollers, stopReturned>>

\* StartContinuousSync up to the return of AddDir
StartContinuousSync(t, dirPath, interval) ==
    /\ Cardinality(Started) + Cardinality(Spawning) < MaxPollers
    /\ Register(t, "StartContinuousSync", dirPath, interval, "go")
    /\ UNCHANGED <<chatID, ctxDone, wg, mu, pollers, stopReturned>>

\* the default period of the ticker, in seconds
DefaultInterval == 5

\* a slip: only a negative interval is replaced
TickerInterval_ZeroKept(interval) ==
    IF interval < 0 THEN DefaultInterval ELSE interval

\* if interval <= 0 { interval = 5 * time.Second }
TickerInterval(interval) ==
    IF interval <= 0 THEN DefaultInterval ELSE interval

\* a slip: the goroutine goes straight to the select on the ticker
NewPoller_WaitFirst(dirPath, interval) ==
    [NoPoller EXCEPT !.pc = "select", !.dir = dirPath, !.asked = interval,
                     !.interval = TickerInterval(interval)]

\* the goroutine at its start, its ticker created with the interval the
\* call was left with: the initial syncDirectoryOnce comes first
NewPoller(dirPath, interval) ==
    [NoPoller EXCEPT !.pc = "cycle", !.dir = dirPath, !.asked = interval,
                     !.interval = TickerInterval(interval)]

\* s.wg.Add(1); go func() { ... }(); return nil
StartContinuousSyncGo(t) ==
    /\ threads[t].pc = "go"
    /\ LET p == CHOOSE q \in Pollers \ Started :
                    \A r \in Pollers \ Started : q <= r
       IN  pollers' = [pollers EXCEPT ![p] =
               NewPoller(threads[t].dir, threads[t].interval)]
    /\ wg' = wg + 1
    /\ threads' = [threads EXCEPT ![t] = IdleThread]
    /\ last' = [NoLast EXCEPT
                    !.ret = Ret(t, "StartContinuousSync", threads[t].dir, "nil")]
    /\ NoWatcherCall
    /\ UNCHANGED <<chatID, ctxDone, mu, calls, stopReturned>>

Cycle(p, err, files, syncFiled, failed) ==
    [called |-> TRUE, by |-> p, err |-> err, files |-> files,
     syncFiled |-> syncFiled, failed |-> failed, cancelled |-> ctxDone]

\* a slip: a cycle in which an upload failed ends the goroutine
AtSelect_ExitOnFailure(me) ==
    IF me.failed # {}
    THEN [me EXCEPT !.pc = "exited"]
    ELSE [me EXCEPT !.pc = "select", !.files = <<>>, !.idx = 0,
                    !.called = <<>>, !.failed = {}]

\* a poller between two cycles, at the select
AtSelect(me) ==
    [me EXCEPT !.pc = "select", !.files = <<>>, !.idx = 0, !.called = <<>>,
               !.failed = {}]

\* syncDirectoryOnce up to the return of GetUpdatedFiles; a nil list ends it
syncDirectoryOnce(p, order, gone) ==
    /\ pollers[p].pc = "cycle"
    /\ GetUpdatedFilesCall(order, gone)
    /\ LET files == Diff(order, gone).files
       IN  IF files = <<>>
           THEN /\ pollers' = [pollers EXCEPT ![p] = AtSelect(@)]
                /\ last' = [NoLast EXCEPT
                                !.diff = DiffBy("poller", order, gone),
                                !.cycle = Cycle(p, "nil", <<>>, <<>>, {})]
           ELSE /\ pollers' = [pollers EXCEPT ![p] =
                       [@ EXCEPT !.pc = "loop", !.files = files, !.idx = 1]]
                /\ last' = [NoLast EXCEPT !.diff = DiffBy("poller", order, gone)]
    /\ UNCHANGED <<chatID, ctxDone, wg, mu, threads, calls, stopReturned>>

\* the top of one iteration: the test of the path, which goes on with
\* the next path or ends the cycle after the last, and the check of the
\* context
syncDirectoryOnceCheck(p) ==
    /\ pollers[p].pc = "loop"
    /\ LET me == pollers[p]
       IN  IF EmptyPath(me.files[me.idx])
           THEN IF me.idx + 1 > Len(me.files)
                THEN /\ pollers' = [pollers EXCEPT ![p] = AtSelect(@)]
                     /\ last' = [NoLast EXCEPT !.cycle =
                            Cycle(p, "nil", me.files, me.called, me.failed)]
                ELSE /\ pollers' = [pollers EXCEPT ![p] =
                            [@ EXCEPT !.idx = me.idx + 1]]
                     /\ last' = NoLast
           ELSE IF LoopCancelled
           THEN /\ pollers' = [pollers EXCEPT ![p] = AtSelect(@)]
                /\ last' = [NoLast EXCEPT !.cycle =
                       Cycle(p, "context canceled", me.files, me.called,
                             me.failed)]
           ELSE /\ pollers' = [pollers EXCEPT ![p] =
                       [@ EXCEPT !.pc = "send", !.passedDone = ctxDone]]
                /\ last' = NoLast
    /\ NoWatcherCall
    /\ UNCHANGED <<chatID, ctxDone, wg, mu, threads, calls, stopReturned>>

\* s.SyncFile(filePath): one Uploader call, which succeeds or fails
syncDirectoryOnceSyncFile(p, ok) ==
    /\ pollers[p].pc = "send"
    /\ LET me == pollers[p]
           filePath == me.files[me.idx]
           next == AfterSyncFile(me.files, me.idx, ok)
           called == Append(me.called, filePath)
           failed == IF ok THEN me.failed ELSE me.failed \cup {filePath}
           late == IF ctxDone THEN me.late + 1 ELSE me.late
           send == [called |-> TRUE, by |-> "poller", dir |-> me.dir,
                    path |-> filePath, late |-> ctxDone, ok |-> ok]
       IN  IF next.pc = "end"
           THEN /\ pollers' = [pollers EXCEPT ![p] =
                       [AtSelect(@) EXCEPT !.late = late]]
                /\ last' = [NoLast EXCEPT
                       !.send = send,
                       !.cycle = Cycle(p, next.err, me.files, called, failed)]
           ELSE /\ pollers' = [pollers EXCEPT ![p] =
                       [@ EXCEPT !.pc = "loop", !.idx = me.idx + 1,
                                 !.called = called, !.failed = failed,
                                 !.late = late]]
                /\ last' = [NoLast EXCEPT !.send = send]
    /\ NoWatcherCall
    /\ UNCHANGED <<chatID, ctxDone, wg, mu, threads, calls, stopReturned>>

\* the select of the poller takes <-ticker.C
PollerTick(p) ==
    /\ pollers[p].pc = "select"
    /\ pollers[p].ticks < MaxTicks
    /\ pollers' = [pollers EXCEPT ![p] =
           [@ EXCEPT !.pc = "cycle", !.ticks = @ + 1]]
    /\ last' = NoLast
    /\ NoWatcherCall
    /\ UNCHANGED <<chatID, ctxDone, wg, mu, threads, calls, stopReturned>>

\* a slip: the goroutine returns without wg.Done()
PollerDone_NoWgDone(p) ==
    /\ pollers[p].pc = "select"
    /\ ctxDone
    /\ pollers' = [pollers EXCEPT ![p] = [@ EXCEPT !.pc = "exited"]]
    /\ last' = NoLast
    /\ NoWatcherCall
    /\ UNCHANGED <<chatID, wg, ctxDone, mu, threads, calls, stopReturned>>

\* the select of the poller takes <-s.ctx.Done(): return, and wg.Done()
PollerDone(p) ==
    /\ pollers[p].pc = "select"
    /\ ctxDone
    /\ pollers' = [pollers EXCEPT ![p] = [@ EXCEPT !.pc = "exited"]]
    /\ wg' = wg - 1
    /\ last' = NoLast
    /\ NoWatcherCall
    /\ UNCHANGED <<chatID, ctxDone, mu, threads, calls, stopReturned>>

\* SyncDirectory up to the return of AddDir
SyncDirectory(t, dirPath) ==
    /\ Register(t, "SyncDirectory", dirPath, 0, "get")
    /\ UNCHANGED <<chatID, ctxDone, wg, mu, pollers, stopReturned>>

\* SyncDirectory: GetUpdatedFiles, and the error on a nil list
SyncDirectoryGet(t, order, gone) ==
    /\ threads[t].pc = "get"
    /\ GetUpdatedFilesCall(order, gone)
    /\ LET files == Diff(order, gone).files
       IN  IF files = <<>>
           THEN /\ threads' = [threads EXCEPT ![t] = IdleThread]
                /\ last' = [NoLast EXCEPT
                       !.diff = DiffBy("caller", order, gone),
                       !.ret = Ret(t, "SyncDirectory", threads[t].dir,
                                   "fileWatcher returned nil files list")]
           ELSE /\ threads' = [threads EXCEPT ![t] =
                       [@ EXCEPT !.pc = "send", !.files = files, !.idx = 1]]
                /\ last' = [NoLast EXCEPT !.diff = DiffBy("caller", order, gone)]
    /\ UNCHANGED <<chatID, ctxDone, wg, mu, pollers, calls, stopReturned>>

\* SyncDirectory: one iteration of the loop over the batch, the test of
\* the path and s.SyncFile(filePath)
SyncDirectorySyncFile(t, ok) ==
    /\ threads[t].pc = "send"
    /\ LET me == threads[t]
           filePath == me.files[me.idx]
           next == AfterSyncFile(me.files, me.idx, ok)
           skip == EmptyPath(filePath)
           called == IF skip THEN me.called ELSE Append(me.called, filePath)
           failed == IF ok \/ skip THEN me.failed
                     ELSE me.failed \cup {filePath}
           send == IF skip THEN NoSend
                   ELSE [called |-> TRUE, by |-> "caller", dir |-> me.dir,
                         path |-> filePath, late |-> ctxDone, ok |-> ok]
       IN  IF next.pc = "end"
           THEN /\ threads' = [threads EXCEPT ![t] = IdleThread]
                /\ last' = [NoLast EXCEPT
                       !.send = send,
                       !.ret = [Ret(t, "SyncDirectory", me.dir, next.err)
                                   EXCEPT !.files = me.files,
                                          !.syncFiled = called,
                                          !.failed = failed]]
           ELSE /\ threads' = [threads EXCEPT ![t] =
                       [@ EXCEPT !.idx = me.idx + 1, !.called = called,
                                 !.failed = failed]]
                /\ last' = [NoLast EXCEPT !.send = send]
    /\ NoWatcherCall
    /\ UNCHANGED <<chatID, ctxDone, wg, mu, pollers, calls, stopReturned>>

\* Stop: s.mu.Lock(); s.cancel()
Stop(t) ==
    /\ threads[t].pc = "idle"
    /\ mu = NoThread
    /\ mu' = t
    /\ ctxDone' = TRUE
    /\ threads' = [threads EXCEPT ![t] =
           [IdleThread EXCEPT !.pc = "wait", !.op = "Stop"]]
    /\ last' = NoLast
    /\ NoWatcherCall
    /\ UNCHANGED <<chatID, wg, pollers, calls, stopReturned>>

\* a slip: Stop returns without waiting for the counter to reach 0
StopWait_NoWait(t) ==
    /\ threads[t].pc = "wait"
    /\ mu' = NoThread
    /\ stopReturned' = TRUE
    /\ threads' = [threads EXCEPT ![t] = IdleThread]
    /\ last' = [NoLast EXCEPT !.ret = Ret(t, "Stop", "", "nil")]
    /\ NoWatcherCall
    /\ UNCHANGED <<chatID, ctxDone, wg, pollers, calls>>

\* a slip: Stop returns with s.mu still locked
StopWait_NoUnlock(t) ==
    /\ threads[t].pc = "wait"
    /\ wg = 0
    /\ stopReturned' = TRUE
    /\ threads' = [threads EXCEPT ![t] = IdleThread]
    /\ last' = [NoLast EXCEPT !.ret = Ret(t, "Stop", "", "nil")]
    /\ NoWatcherCall
    /\ UNCHANGED <<chatID, ctxDone, wg, mu, pollers, calls>>

\* Stop: s.wg.Wait() returns; s.mu.Unlock()
StopWait(t) ==
    /\ threads[t].pc = "wait"
    /\ wg = 0
    /\ mu' = NoThread
    /\ stopReturned' = TRUE
    /\ threads' = [threads EXCEPT ![t] = IdleThread]
    /\ last' = [NoLast EXCEPT !.ret = Ret(t, "Stop", "", "nil")]
    /\ NoWatcherCall
    /\ UNCHANGED <<chatID, ctxDone, wg, pollers, calls>>

\* what a caller may hand to StartContinuousSync and SyncDirectory
ServiceArgs == {DirData, DirSub, DirMissing, FileA, ""}

\* starting the syncs and running the cycles, the environment changing the
\* files at most `limit` times
CycleNext(limit) ==
    \/ \E t \in Threads, dirPath \in ServiceArgs :
          StartContinuousSync(t, dirPath, 0)
    \/ \E t \in Threads : StartContinuousSyncGo(t)
    \/ \E p \in Pollers, order \in DirOrders, gone \in GoneUpTo(limit) :
          syncDirectoryOnce(p, order, gone)
    \/ \E p \in Pollers : syncDirectoryOnceCheck(p)
    \/ \E p \in Pollers, ok \in BOOLEAN : syncDirectoryOnceSyncFile(p, ok)
    \/ \E p \in Pollers : PollerTick(p)
    \/ \E t \in Threads, dirPath \in ServiceArgs : SyncDirectory(t, dirPath)
    \/ \E t \in Threads, order \in DirOrders, gone \in GoneUpTo(limit) :
          SyncDirectoryGet(t, order, gone)
    \/ \E t \in Threads, ok \in BOOLEAN : SyncDirectorySyncFile(t, ok)

\* the shutdown
StopNext ==
    \/ \E t \in Threads : Stop(t)
    \/ \E t \in Threads : StopWait(t)
    \/ \E p \in Pollers : PollerDone(p)

\* the service over files at rest
Next == CycleNext(0) \/ StopNext

Spec == Init /\ [][Next]_vars

\* Scheduling: a goroutine that can take its next step takes it, every
\* Uploader call returns, wg.Wait() returns once the counter is 0, and the
\* select of a poller, which chooses at random among its ready cases, does
\* not pass over the closed ctx.Done() for ever.  The GetUpdatedFiles call
\* of a cycle can always be taken (w.mu is held for the length of one call
\* only), so its weak fairness is that no poller stays at it for ever.
Fairness ==
    /\ \A p \in Pollers :
        /\ []<>(pollers[p].pc # "cycle")
        /\ WF_pollers(syncDirectoryOnceCheck(p))
        /\ WF_pollers(\E ok \in BOOLEAN : syncDirectoryOnceSyncFile(p, ok))
        /\ WF_pollers(PollerDone(p))
    /\ \A t \in Threads : WF_threads(StopWait(t))

\* the pollers and the shutdown, the files at rest
NextLive ==
    \/ \E t \in Threads, dirPath \in Dirs : StartContinuousSync(t, dirPath, 0)
    \/ \E t \in Threads : StartContinuousSyncGo(t)
    \/ \E p \in Pollers, order \in DirOrders : syncDirectoryOnce(p, order, {})
    \/ \E p \in Pollers : syncDirectoryOnceCheck(p)
    \/ \E p \in Pollers, ok \in BOOLEAN : syncDirectoryOnceSyncFile(p, ok)
    \/ \E p \in Pollers : PollerTick(p)
    \/ StopNext

SpecLive == Init /\ [][NextLive]_vars /\ Fairness

\* the syncs started with every interval, in seconds
Intervals == (0 - 1)..MaxInterval

NextInterval ==
    \/ \E t \in Threads, dirPath \in Dirs, interval \in Intervals :
          StartContinuousSync(t, dirPath, interval)
    \/ \E t \in Threads : StartContinuousSyncGo(t)

SpecInterval == Init /\ [][NextInterval]_vars

\* the cycles over files that change, no shutdown requested
NextEnv ==
    \/ \E f \in Files : fsOps < MaxEnvOps /\ FsWrite(f, 2, 3)
    \/ CycleNext(MaxEnvOps)

SpecEnv == Init /\ [][NextEnv]_vars

\* The service holds its watcher as the interface file.Watcher: the lists
\* an implementation may return, the empty path among the paths, and the
\* nil list.
Batches == SeqsUpTo({"", FileA}, MaxBatch)

\* syncDirectoryOnce up to the return of GetUpdatedFiles, the watcher
\* returning `files`
syncDirectoryOnceOver(p, files) ==
    /\ pollers[p].pc = "cycle"
    /\ IF files = <<>>
       THEN /\ pollers' = [pollers EXCEPT ![p] = AtSelect(@)]
            /\ last' = [NoLast EXCEPT
                            !.cycle = Cycle(p, "nil", <<>>, <<>>, {})]
       ELSE /\ pollers' = [pollers EXCEPT ![p] =
                   [@ EXCEPT !.pc = "loop", !.files = files, !.idx = 1]]
            /\ last' = NoLast
    /\ NoWatcherCall
    /\ UNCHANGED <<chatID, ctxDone, wg, mu, threads, calls, stopReturned>>

\* SyncDirectory: GetUpdatedFiles, the watcher returning `files`
SyncDirectoryOver(t, files) ==
    /\ threads[t].pc = "get"
    /\ IF files = <<>>
       THEN /\ threads' = [threads EXCEPT ![t] = IdleThread]
            /\ last' = [NoLast EXCEPT
                   !.ret = Ret(t, "SyncDirectory", threads[t].dir,
                               "fileWatcher returned nil files list")]
       ELSE /\ threads' = [threads EXCEPT ![t] =
                   [@ EXCEPT !.pc = "send", !.files = files, !.idx = 1]]
            /\ last' = NoLast
    /\ NoWatcherCall
    /\ UNCHANGED <<chatID, ctxDone, wg, mu, pollers, calls, stopReturned>>

\* the loops over the batches of any watcher, one poller and the one-shot
\* calls, the shutdown, and SyncFile called on its own before any sync is
\* asked for
NextBatch ==
    \/ \E t \in Threads :
          Started = {} /\ Spawning = {} /\ StartContinuousSync(t, DirData, 0)
    \/ \E t \in Threads : StartContinuousSyncGo(t)
    \/ \E p \in Pollers, files \in Batches : syncDirectoryOnceOver(p, files)
    \/ \E p \in Pollers : syncDirectoryOnceCheck(p)
    \/ \E p \in Pollers, ok \in BOOLEAN : syncDirectoryOnceSyncFile(p, ok)
    \/ \E p \in Pollers : PollerTick(p)
    \/ \E t \in Threads : SyncDirectory(t, DirData)
    \/ \E t \in Threads, files \in Batches : SyncDirectoryOver(t, files)
    \/ \E t \in Threads, ok \in BOOLEAN : SyncDirectorySyncFile(t, ok)
    \/ \E filePath \in {<<>>, <<"a">>}, ok \in BOOLEAN :
          calls = 0 /\ SyncFile(filePath, ok)
    \/ StopNext

SpecBatch == Init /\ [][NextBatch]_vars

\* ================================================================ claims
Count(x, s) == Cardinality({i \in 1..Len(s) : s[i] = x})

\* the filter policy as the specification words it
MatchesAll(res, path) == \A i \in 1..Len(res) : Match(res[i], path)
MatchesSome(res, path) == \E i \in 1..Len(res) : Match(res[i], path)
PolicyAccepts(path) ==
    MatchesAll(whitelistRegexp, path) /\ ~MatchesSome(blacklistRegexp, path)

\* the call just made stat'ed f
Stated(f) == f \in Range(lastDiff.visits) /\ lastDiff.stat[f] # NoFile

\* C1: an eligible file on disk with no record is returned exactly once by
\* the first call that scans it, and its record is created, also when two
\* registered directories both reach it.
C1_NewFileReportedOnce ==
    lastDiff.called =>
        \A f \in Files :
            (Stated(f) /\ PolicyAccepts(f) /\ lastDiff.before[f] = NoRecord)
            => /\ Count(f, lastDiff.files) = 1
               /\ watchedFiles[f] = lastDiff.stat[f]

C1_Witness ==
    /\ lastDiff.called
    /\ lastDiff.dirs = {DirData, DirSub}
    /\ Count(FileB, lastDiff.visits) = 2
    /\ lastDiff.before[FileB] = NoRecord
    /\ PolicyAccepts(FileB)
    /\ Count(FileB, lastDiff.files) = 1

\* C2: a file some call has returned is not returned by a later call that
\* observes the size and modification time of the call that last returned it.
C2_SteadyStateNotReported ==
    lastDiff.called =>
        \A f \in Files :
            (lastDiff.returnedBefore[f] # NoFile
             /\ lastDiff.stat[f] = lastDiff.returnedBefore[f])
            => f \notin Range(lastDiff.files)

C2_Witness ==
    /\ lastDiff.called
    /\ \E f \in Files :
        /\ Stated(f)
        /\ lastDiff.stat[f] = lastDiff.returnedBefore[f]
        /\ lastDiff.statBefore[f] = lastDiff.stat[f]

\* C3 as claimed: an eligible file with a record whose size or modification
\* time differs, in any direction, between two consecutive calls is returned
\* by the second.
C3_AnyDifferenceReported ==
    lastDiff.called =>
        \A f \in Files :
            (/\ Stated(f) /\ PolicyAccepts(f)
             /\ lastDiff.before[f] # NoRecord
             /\ lastDiff.statBefore[f] # NoFile
             /\ lastDiff.stat[f] # lastDiff.statBefore[f])
            => f \in Range(lastDiff.files)

\* C3 amended: an eligible file with a record is returned when the size
\* observed differs from the recorded size or the modification time observed
\* is strictly after the recorded one, and the record then takes both.
C3_ChangeAgainstRecordReported ==
    lastDiff.called =>
        \A f \in Files :
            (/\ Stated(f) /\ PolicyAccepts(f)
             /\ lastDiff.before[f] # NoRecord
             /\ \/ lastDiff.stat[f].size # lastDiff.before[f].size
                \/ lastDiff.stat[f].modTime > lastDiff.before[f].modTime)
            => /\ f \in Range(lastDiff.files)
               /\ watchedFiles[f] = lastDiff.stat[f]

C3_Witness ==
    /\ lastDiff.called
    /\ \E f \in Files :
        /\ Stated(f) /\ PolicyAccepts(f)
        /\ lastDiff.before[f] # NoRecord
        /\ lastDiff.stat[f].size # lastDiff.before[f].size
        /\ lastDiff.stat[f].modTime < lastDiff.before[f].modTime
        /\ f \in Range(lastDiff.files)

\* C4: a path passes the check of GetUpdatedFiles exactly when it matches
\* every allow pattern and no deny pattern, for all pattern sets and paths.
C4_FilterPolicy ==
    /\ \A f \in Files :
        /\ isWhitelisted(f) <=> MatchesAll(whitelistRegexp, f)
        /\ isBlacklisted(f) <=> MatchesSome(blacklistRegexp, f)
        /\ ~Skipped(f) <=> PolicyAccepts(f)
    /\ lastDiff.called =>
        \A f \in Files :
            /\ f \in Range(lastDiff.files) => PolicyAccepts(f)
            /\ (Stated(f) /\ lastDiff.before[f] = NoRecord /\ PolicyAccepts(f))
               => f \in Range(lastDiff.files)

C4_Witness ==
    /\ lastDiff.called
    /\ Len(whitelistRegexp) = 2
    /\ \E f, g \in Files :
        /\ Stated(f) /\ Stated(g)
        /\ Match(whitelistRegexp[2], f) /\ ~Match(whitelistRegexp[1], f)
        /\ f \notin Range(lastDiff.files)
        /\ g \in Range(lastDiff.files)

\* C5: a path the filter policy rejects is in the result of no
\* GetUpdatedFiles call, in no batch of a cycle and in no Uploader call,
\* whatever is written to it on disk.
C5_RejectedNeverDispatched ==
    \A f \in Files :
        ~PolicyAccepts(f) =>
            /\ f \notin Range(lastDiff.files)
            /\ \A p \in Pollers : f \notin Range(pollers[p].files)
            /\ \A t \in Threads : f \notin Range(threads[t].files)
            /\ lastSend.called => lastSend.path # f

C5_Witness ==
    /\ lastDiff.called
    /\ \E f \in Files :
        /\ ~PolicyAccepts(f)
        /\ Stated(f)
        /\ fs[f] = [size |-> 2, modTime |-> 3]
    /\ \E p \in Pollers :
        pollers[p].ticks = 1 /\ pollers[p].pc = "loop"

\* C6: AddDir of a registered path returns nil and leaves watchedDirs as it
\* was; the registry holds exactly the distinct paths registered so far.
C6_AddDirIdempotent ==
    /\ watchedDirs = registered
    /\ (lastAdd.called /\ lastAdd.path \in lastAdd.dirsBefore)
       => lastAdd.err = "nil" /\ watchedDirs = lastAdd.dirsBefore

C6_Witness ==
    /\ lastAdd.called
    /\ lastAdd.path \in lastAdd.dirsBefore
    /\ Cardinality(watchedDirs) = 2

\* C7: AddDir of an unregistered path that does not exist or is no directory
\* returns an error and changes neither watchedDirs nor any file record nor
\* any poller.
C7_AddDirFailsCleanly ==
    (/\ lastAdd.called
     /\ lastAdd.path \notin lastAdd.dirsBefore
     /\ (~StatOk(lastAdd.path) \/ lastAdd.path \notin Dirs))
    => /\ lastAdd.err # "nil"
       /\ watchedDirs = lastAdd.dirsBefore
       /\ watchedFiles = lastAdd.filesBefore
       /\ pollers = lastAdd.pollersBefore

C7_Witness ==
    /\ lastAdd.called
    /\ lastAdd.path = FileA
    /\ fs[FileA] # NoFile
    /\ lastAdd.err = "path is not a directory"
    /\ watchedDirs # {}
    /\ \E f \in Files : watchedFiles[f] # NoRecord
    /\ \E p \in Pollers : pollers[p].pc = "send"

\* C8 as claimed: once the shutdown signal is raised no poller begins an
\* Uploader call.
C8_NoUploadAfterStop ==
    /\ \A p \in Pollers : pollers[p].late = 0
    /\ (lastSend.called /\ lastSend.by = "poller") => ~lastSend.late

\* C8 amended: once the shutdown signal is raised a poller begins at most one
\* more Uploader call, the one whose check of the context had passed before
\* the signal; no check made after the signal lets a call through.
C8_AtMostOneUploadAfterStop ==
    \A p \in Pollers :
        /\ pollers[p].late <= 1
        /\ pollers[p].pc = "send" => ~pollers[p].passedDone

C8_Witness ==
    /\ lastSend.called /\ lastSend.by = "poller" /\ lastSend.late
    /\ \E p \in Pollers : pollers[p].late = 1 /\ pollers[p].pc = "loop"

\* C9: once a Stop() call has returned no poller goroutine is running.
C9_StopJoinsAllPollers ==
    stopReturned => \A p \in Pollers : pollers[p].pc \in {"none", "exited"}

\* C10: a cycle in which an Uploader call failed still calls SyncFile for
\* every path of the batch, unless shutdown ends it, and returns no error
\* because of the failure; so does SyncDirectory.
C10_UploadErrorDoesNotAbortCycle ==
    /\ (lastCycle.called /\ lastCycle.failed # {})
       => \/ lastCycle.err = "nil" /\ lastCycle.syncFiled = lastCycle.files
          \/ lastCycle.err = "context canceled" /\ lastCycle.cancelled
    /\ (lastRet.called /\ lastRet.op = "SyncDirectory" /\ lastRet.failed # {})
       => lastRet.err = "nil" /\ lastRet.syncFiled = lastRet.files

C10_Witness ==
    /\ lastCycle.called
    /\ Len(lastCycle.files) = 2
    /\ lastCycle.files[1] \in lastCycle.failed
    /\ lastCycle.syncFiled = lastCycle.files
    /\ lastCycle.err = "nil"

\* the characters after the last dot of the last path element, written in
\* lower case, are the word `w`
C11_HasExtension(path, w) ==
    \E i \in DOMAIN path :
        /\ path[i] = "."
        /\ \A j \in (i + 1)..Len(path) : path[j] \notin {".", "/"}
        /\ Len(path) - i = Len(w)
        /\ \A j \in DOMAIN w :
              \/ path[i + j] = w[j]
              \/ \E k \in DOMAIN Upper : Upper[k] = path[i + j] /\ Lower[k] = w[j]

C11_Audio == {<<"m", "p", "3">>, <<"w", "a", "v">>, <<"o", "g", "g">>,
              <<"m", "4", "a">>, <<"f", "l", "a", "c">>, <<"a", "a", "c">>,
              <<"o", "p", "u", "s">>}
C11_Photo == {<<"j", "p", "g">>, <<"j", "p", "e", "g">>, <<"p", "n", "g">>,
              <<"g", "i", "f">>, <<"w", "e", "b", "p">>, <<"b", "m", "p">>}
C11_Video == {<<"m", "p", "4">>, <<"a", "v", "i">>, <<"m", "o", "v">>,
              <<"m", "k", "v">>, <<"w", "e", "b", "m">>, <<"f", "l", "v">>,
              <<"w", "m", "v">>}

C11_Method(path) ==
    IF \E w \in C11_Audio : C11_HasExtension(path, w) THEN "SendAudio"
    ELSE IF \E w \in C11_Photo : C11_HasExtension(path, w) THEN "SendPhoto"
    ELSE IF \E w \in C11_Video : C11_HasExtension(path, w) THEN "SendVideo"
    ELSE "SendDocument"

\* the base name: the last element of the path, separators at the end
\* of the path left aside; "/" for a path of separators only
C11_IsBaseName(path, b) ==
    IF \A i \in DOMAIN path : path[i] = "/" THEN b = <<"/">>
    ELSE \E i \in DOMAIN path, j \in DOMAIN path :
            /\ i <= j
            /\ b = SubSeq(path, i, j)
            /\ \A k \in i..j : path[k] # "/"
            /\ \A k \in (j + 1)..Len(path) : path[k] = "/"
            /\ i = 1 \/ path[i - 1] = "/"

\* C11: SyncFile of a non-empty path makes exactly one Uploader call: the
\* method is chosen by the lower-cased extension (audio, photo and video
\* tables, SendDocument for everything else), and the call carries the
\* configured chat id, the path and the caption "File: " plus the base name.
C11_SyncFileDispatch ==
    (lastSyncFile.called /\ lastSyncFile.filePath # <<>>)
    => /\ Len(lastSyncFile.bot) = 1
       /\ lastSyncFile.bot[1].method = C11_Method(lastSyncFile.filePath)
       /\ lastSyncFile.bot[1].chatID = chatID
       /\ lastSyncFile.bot[1].filePath = lastSyncFile.filePath
       /\ Len(lastSyncFile.bot[1].caption) > 6
       /\ SubSeq(lastSyncFile.bot[1].caption, 1, 6)
             = <<"F", "i", "l", "e", ":", " ">>
       /\ C11_IsBaseName(lastSyncFile.filePath,
                         SubSeq(lastSyncFile.bot[1].caption, 7,
                                Len(lastSyncFile.bot[1].caption)))

\* a path in a directory whose name ends in .mp3, with an upper-case
\* photo extension, sent as a photo for the second chat
C11_Witness ==
    /\ lastSyncFile.called
    /\ lastSyncFile.filePath
         = <<"/", "d", ".", "m", "p", "3", "/", "a", ".", "J", "P", "E", "G">>
    /\ lastSyncFile.bot[1].method = "SendPhoto"
    /\ chatID = "@backup"

\* C12: a poller started for directory D dispatches only files located
\* under D, never a file that lies only under another registered directory.
C12_PollerDispatchesOwnDirectory ==
    (lastSend.called /\ lastSend.by = "poller")
    => Under(lastSend.path, lastSend.dir)

\* C13: at any time there is at most one running poller per watched
\* directory.
C13_OnePollerPerDirectory ==
    \A p, q \in Pollers :
        (/\ p # q
         /\ pollers[p].pc \notin {"none", "exited"}
         /\ pollers[q].pc \notin {"none", "exited"})
        => pollers[p].dir # pollers[q].dir

\* C14: a StartContinuousSync call with an empty path, or whose AddDir
\* fails, returns an error: the step starts no poller, leaves the wait
\* group as it was, and makes no GetUpdatedFiles and no Uploader call.
C14_FailedStartDoesNothing ==
    [][(/\ lastRet'.called
        /\ lastRet'.op = "StartContinuousSync"
        /\ lastRet'.dir = "" \/ (lastAdd'.called /\ lastAdd'.err # "nil"))
       => /\ lastRet'.err # "nil"
          /\ pollers' = pollers
          /\ wg' = wg
          /\ threads' = threads
          /\ watchedFiles' = watchedFiles
          /\ ~lastDiff'.called
          /\ ~lastSend'.called]_vars

\* both failures while a poller already runs
C14_Witness ==
    /\ lastRet.called
    /\ lastRet.op = "StartContinuousSync"
    /\ lastRet.err # "nil"
    /\ \/ lastRet.dir = ""
       \/ lastRet.dir = FileA /\ lastAdd.called /\ lastAdd.err # "nil"
    /\ \E p \in Pollers : pollers[p].pc = "loop"
    /\ wg = 1

\* C15: a poller that is started performs one full cycle before it waits
\* for its first timer tick: it starts at the GetUpdatedFiles call of the
\* initial pass, reaches the select for the first time only when that pass
\* has returned, and the pass has called SyncFile for each path that
\* GetUpdatedFiles returned, in that order (the pass ends early only when
\* the shutdown signal was raised while it ran).
C15_InitialPassBeforeFirstTick ==
    [][\A p \in Pollers :
        /\ (pollers[p].pc = "none" /\ pollers'[p].pc # "none")
           => /\ pollers'[p].pc = "cycle"
              /\ pollers'[p].ticks = 0
        /\ (pollers[p].pc = "cycle" /\ pollers'[p].pc # "cycle")
           => /\ lastDiff'.called
              /\ lastDiff'.by = "poller"
              /\ \/ pollers'[p].pc = "loop"
                    /\ pollers'[p].files = lastDiff'.files
                 \/ pollers'[p].pc = "select" /\ lastDiff'.files = <<>>
        /\ (pollers[p].pc # "select" /\ pollers'[p].pc = "select"
              /\ pollers'[p].ticks = 0)
           => /\ lastCycle'.called
              /\ lastCycle'.by = p
              /\ \/ lastCycle'.syncFiled = lastCycle'.files
                 \/ lastCycle'.cancelled /\ lastCycle'.err = "context canceled"
        /\ pollers'[p].ticks > pollers[p].ticks => pollers[p].pc = "select"
      ]_vars

\* the initial pass of a poller has dispatched two files, no tick fired
C15_Witness ==
    /\ lastCycle.called
    /\ ~lastCycle.cancelled
    /\ Len(lastCycle.syncFiled) >= 2
    /\ pollers[lastCycle.by].pc = "select"
    /\ pollers[lastCycle.by].ticks = 0
    /\ \A p \in Pollers : pollers[p].ticks = 0

\* C16: a poller never terminates because of an error.  Whatever a cycle
\* returns, the poller is at its select afterwards; from the select it
\* goes only to a new cycle (a tick) or, the shutdown signal raised, to its
\* exit; a poller that has exited has observed the shutdown signal.
C16_PollerExitsOnlyOnShutdown ==
    /\ [](\A p \in Pollers : pollers[p].pc = "exited" => ctxDone)
    /\ [](lastCycle.called => pollers[lastCycle.by].pc = "select")
    /\ [][\A p \in Pollers :
            /\ (pollers[p].pc = "select" /\ pollers'[p].pc # "select")
               => \/ pollers'[p].pc = "cycle"
                  \/ pollers'[p].pc = "exited" /\ ctxDone
            /\ (pollers[p].pc # "exited" /\ pollers'[p].pc = "exited")
               => pollers[p].pc = "select" /\ ctxDone
         ]_vars

\* every upload of a cycle failed, no shutdown: the poller is at its select
C16_Witness ==
    /\ lastCycle.called
    /\ lastCycle.err = "nil"
    /\ Len(lastCycle.files) >= 2
    /\ lastCycle.failed = Range(lastCycle.files)
    /\ ~ctxDone
    /\ pollers[lastCycle.by].pc = "select"

\* C17: after the shutdown signal has been raised no poller begins a new
\* cycle: no poller calls GetUpdatedFiles, so no poller creates or updates
\* a file record, once the context is cancelled.
C17_NoCycleAfterShutdown ==
    (lastDiff.called /\ lastDiff.by = "poller") => ~lastDiff.whileDone

\* C18: once Stop() has raised the shutdown signal, Stop() eventually
\* returns and from some point on every poller that was started has
\* exited: no interleaving of Stop with scanning, diffing or dispatching
\* pollers blocks the service lock, the wait group or the watcher for ever.
C18_StopTerminates ==
    /\ ctxDone ~> stopReturned
    /\ ctxDone ~> [](\A p \in Pollers : pollers[p].pc \in {"none", "exited"})
    /\ \A t \in Threads : (threads[t].pc = "wait") ~> (threads[t].pc = "idle")

\* Stop has returned after a poller dispatched a file and exited
C18_Witness ==
    /\ stopReturned
    /\ wg = 0
    /\ mu = NoThread
    /\ \E p \in Pollers : pollers[p].pc = "exited" /\ pollers[p].late = 1

C20_First(s, f) == CHOOSE i \in DOMAIN s : s[i] = f /\ \A j \in 1..(i - 1) : s[j] # f

\* C20: within one cycle the Uploader calls are made in the order of the
\* list GetUpdatedFiles returned, and that list is in the order in which
\* the scanner yielded the paths: what has been dispatched is at every
\* moment a prefix of the batch, the next path to dispatch is the one that
\* follows it, and a cycle that ran to its end dispatched the whole list.
C20_DispatchInScanOrder ==
    /\ \A p \in Pollers :
        /\ Len(pollers[p].called) <= Len(pollers[p].files)
        /\ pollers[p].called = SubSeq(pollers[p].files, 1, Len(pollers[p].called))
        /\ pollers[p].pc \in {"loop", "send"}
           => pollers[p].idx = Len(pollers[p].called) + 1
    /\ \A t \in Threads :
        /\ Len(threads[t].called) <= Len(threads[t].files)
        /\ threads[t].called = SubSeq(threads[t].files, 1, Len(threads[t].called))
        /\ threads[t].pc = "send" => threads[t].idx = Len(threads[t].called) + 1
    /\ (lastCycle.called /\ lastCycle.err = "nil")
       => lastCycle.syncFiled = lastCycle.files
    /\ (lastDiff.called /\ lastDiff.by = "poller" /\ lastDiff.files # <<>>)
       => \E p \in Pollers :
             /\ pollers[p].pc = "loop"
             /\ pollers[p].idx = 1
             /\ pollers[p].files = lastDiff.files
    /\ lastDiff.called
       => \A i, j \in DOMAIN lastDiff.files :
             i < j => C20_First(lastDiff.visits, lastDiff.files[i])
                        < C20_First(lastDiff.visits, lastDiff.files[j])

\* a poller has dispatched the first path of a batch of two and goes on
\* to the second
C20_Witness ==
    \E p \in Pollers :
        /\ pollers[p].pc = "loop"
        /\ pollers[p].idx = 2
        /\ pollers[p].files = <<FileA, FileB>>
        /\ pollers[p].called = <<FileA>>
        /\ lastSend.called
        /\ lastSend.path = FileA

\* C21: the record of a file is updated during the diff, before its
\* dispatch, and a failed Uploader call leaves it as it is, so that a file
\* whose upload failed is dispatched again only when a later call finds
\* its size different from the record or its modification time after that
\* of the record.  In the state a GetUpdatedFiles call leaves, the record
\* of every returned path holds the stat of the call; a returned path that
\* had a record differs from it in size or has a later modification time;
\* no step that makes an Uploader call changes a record; and within one
\* cycle no path is handed to SyncFile twice.
C21_FailedUploadNotRetried ==
    /\ [](lastDiff.called =>
            \A f \in Range(lastDiff.files) :
                /\ watchedFiles[f] = lastDiff.stat[f]
                /\ lastDiff.before[f] # NoRecord
                   => \/ lastDiff.stat[f].size # lastDiff.before[f].size
                      \/ lastDiff.stat[f].modTime > lastDiff.before[f].modTime)
    /\ [](\A p \in Pollers :
            /\ pollers[p].failed \subseteq Range(pollers[p].called)
            /\ \A i, j \in DOMAIN pollers[p].files :
                  i # j => pollers[p].files[i] # pollers[p].files[j])
    /\ [][lastSend'.called => watchedFiles' = watchedFiles]_vars

\* the upload of a.txt by one poller has failed, and a cycle of the
\* other poller that scans a.txt afterwards does not return it
C21_Witness ==
    /\ lastDiff.called
    /\ lastDiff.by = "poller"
    /\ FileA \in Range(lastDiff.visits)
    /\ FileA \notin Range(lastDiff.files)
    /\ lastDiff.before[FileA] = lastDiff.stat[FileA]
    /\ \E p \in Pollers :
        /\ pollers[p].pc = "loop"
        /\ FileA \in pollers[p].failed

\* C22: a SyncDirectory call whose registration has succeeded returns nil,
\* also when GetUpdatedFiles finds nothing new or changed, in which case
\* the call makes no Uploader call.
C22_SyncDirectorySucceeds ==
    (/\ lastRet.called
     /\ lastRet.op = "SyncDirectory"
     /\ lastRet.dir \in watchedDirs)
    => /\ lastRet.err = "nil"
       /\ lastRet.files = <<>> => ~lastSend.called

\* C23: the ticker of a poller is created with 5 seconds when the interval
\* handed to StartContinuousSync is zero or negative, and with the interval
\* itself when it is positive.
C23_IntervalDefault ==
    \A p \in Started :
        /\ pollers[p].asked <= 0 => pollers[p].interval = 5
        /\ pollers[p].asked > 0 => pollers[p].interval = pollers[p].asked

\* two pollers, started with the intervals 0 and 3
C23_Witness ==
    \E p, q \in Started :
        /\ pollers[p].asked = 0 /\ pollers[p].interval = 5
        /\ pollers[q].asked = 3 /\ pollers[q].interval = 3

\* C24: the snapshot store and the watch registry only grow: no step
\* removes a file record, also when the file has been deleted or its stat
\* fails, and no step removes a directory from the watched set.
C24_StoreAndRegistryOnlyGrow ==
    [][/\ \A f \in Files :
            watchedFiles[f] # NoRecord => watchedFiles'[f] # NoRecord
       /\ watchedDirs \subseteq watchedDirs']_vars

\* a call has run after a recorded file was deleted, and while another
\* recorded file vanished between the walk and its stat
C24_Witness ==
    /\ lastDiff.called
    /\ \E f, g \in Files :
        /\ f # g
        /\ watchedFiles[f] # NoRecord
        /\ f \notin Range(lastDiff.visits)
        /\ fs[f] = NoFile
        /\ watchedFiles[g] # NoRecord
        /\ g \in Range(lastDiff.visits)
        /\ lastDiff.stat[g] = NoFile

\* C25: when the stat of a scanned path fails, GetUpdatedFiles leaves the
\* path out of its result, creates or changes no record for it, returns
\* no error, and goes on with the other paths of the scan: every other
\* scanned path that is accepted and has no record yet is returned.
C25_StatFailureSkipsPath ==
    lastDiff.called =>
        \A f \in Range(lastDiff.visits) :
            lastDiff.stat[f] = NoFile =>
                /\ f \notin Range(lastDiff.files)
                /\ watchedFiles[f] = lastDiff.before[f]
                /\ lastDiff.err = "nil"
                /\ \A g \in Range(lastDiff.visits) :
                      (/\ lastDiff.stat[g] # NoFile
                       /\ PolicyAccepts(g)
                       /\ lastDiff.before[g] = NoRecord)
                      => /\ g \in Range(lastDiff.files)
                         /\ watchedFiles[g] = lastDiff.stat[g]

\* the first path of the walk has vanished before its stat, and a path
\* that comes after it is returned
C25_Witness ==
    /\ lastDiff.called
    /\ Len(lastDiff.visits) >= 2
    /\ lastDiff.visits[1] = FileA
    /\ lastDiff.stat[FileA] = NoFile
    /\ lastDiff.before[FileA] # NoRecord
    /\ FileB \in Range(lastDiff.files)

\* C27: once Stop() has returned, no poller is inside an Uploader call and
\* none makes one, also a poller whose goroutine was started after Stop
\* returned: a cycle of a poller that got paths and ends after the return
\* of Stop ends at the shutdown check, with the context's error.
C27_NoPollerUploadAfterStop ==
    stopReturned =>
        /\ \A p \in Pollers : pollers[p].pc # "send"
        /\ ~(lastSend.called /\ lastSend.by = "poller")
        /\ (lastCycle.called /\ lastCycle.files # <<>>)
           => /\ lastCycle.err = "context canceled"
              /\ Len(lastCycle.syncFiled) < Len(lastCycle.files)

\* Stop has returned and a poller started after it has ended its first
\* cycle at the shutdown check, the paths it got not dispatched
C27_Witness ==
    /\ stopReturned
    /\ lastCycle.called
    /\ lastCycle.files # <<>>
    /\ lastCycle.syncFiled = <<>>
    /\ pollers[lastCycle.by].ticks = 0

\* C26: a scanDirectory call on a root that cannot be accessed returns an
\* error, whereas an entry below an accessible root that cannot be
\* accessed is left out, the walk going on with the other entries and the
\* call returning no error.
C26_RootErrorSurfaced ==
    lastScan.called =>
        /\ ~StatOk(lastScan.dir) => lastScan.err # "nil"
        /\ StatOk(lastScan.dir) =>
              /\ lastScan.err = "nil"
              /\ Range(lastScan.files) =
                    {f \in Files : fs[f] # NoFile /\ Under(f, lastScan.dir)}
                        \ lastScan.denied

\* C28: with several pollers calling GetUpdatedFiles on the one watcher,
\* a detected change of a file is returned to one caller only: a call
\* returns no path twice, it returns a path only with a size or
\* modification time other than the ones the path was last returned with
\* to any caller, and as long as nothing on disk has changed the batches
\* two pollers hold have no path in common.
C28_ChangeReturnedToOneCaller ==
    /\ lastDiff.called =>
          /\ \A i, j \in DOMAIN lastDiff.files :
                i # j => lastDiff.files[i] # lastDiff.files[j]
          /\ \A f \in Range(lastDiff.files) :
                lastDiff.stat[f] # lastDiff.returnedBefore[f]
    /\ fsOps = 0 =>
          \A p, q \in Pollers :
              p # q => Range(pollers[p].files) \cap Range(pollers[q].files) = {}

\* one poller still holds a.txt in its batch when the call of another
\* scans a.txt and does not return it, while it returns the change of
\* another file
C28_Witness ==
    /\ lastDiff.called
    /\ lastDiff.by = "poller"
    /\ FileA \in Range(lastDiff.visits)
    /\ FileA \notin Range(lastDiff.files)
    /\ lastDiff.files # <<>>
    /\ \E p, q \in Pollers :
          /\ p # q
          /\ pollers[p].pc \in {"loop", "send"}
          /\ FileA \in Range(pollers[p].files)
          /\ pollers[q].pc = "loop"
          /\ pollers[q].files = lastDiff.files

\* C29 as claimed: every path GetUpdatedFiles returned to a poller cycle
\* is passed to an Uploader call by that cycle, also when Stop() is called
\* while the cycle is in progress.
C29_EveryReturnedPathDispatched ==
    lastCycle.called => Range(lastCycle.files) \subseteq Range(lastCycle.syncFiled)

\* C29 amended: a cycle passes the paths GetUpdatedFiles returned to it to
\* SyncFile one by one in the order returned; it passes all of them unless
\* a shutdown check observes the signal, and then the path of that check
\* and the rest of the batch are not dispatched by the cycle, which ends
\* with the context's error, the records of all the paths already made.
C29_DispatchedUnlessShutdown ==
    lastCycle.called =>
        /\ Len(lastCycle.syncFiled) <= Len(lastCycle.files)
        /\ lastCycle.syncFiled =
              SubSeq(lastCycle.files, 1, Len(lastCycle.syncFiled))
        /\ lastCycle.err \in {"nil", "context canceled"}
        /\ lastCycle.err = "nil" => lastCycle.syncFiled = lastCycle.files
        /\ lastCycle.err = "context canceled" =>
              /\ lastCycle.cancelled
              /\ Len(lastCycle.syncFiled) < Len(lastCycle.files)
        /\ \A f \in Range(lastCycle.files) : watchedFiles[f] # NoRecord

\* Stop() came while a cycle with a batch of two was in progress: the
\* first path was dispatched, the second was not and is recorded
C29_Witness ==
    /\ lastCycle.called
    /\ lastCycle.err = "context canceled"
    /\ Len(lastCycle.files) = 2
    /\ Len(lastCycle.syncFiled) = 1
    /\ watchedFiles[lastCycle.files[2]] = fs[lastCycle.files[2]]

\* C30: after a GetUpdatedFiles call the record of every path in the
\* result holds the size and modification time the stat of that call
\* observed, the record of every other path (unchanged, filtered out,
\* stat failed, or not scanned) is what it was before the call, and
\* watchedDirs is what it was before the call.
C30_DiffFrame ==
    lastDiff.called =>
        /\ \A f \in Files :
              IF f \in Range(lastDiff.files)
              THEN /\ lastDiff.stat[f] # NoFile
                   /\ watchedFiles[f] = lastDiff.stat[f]
              ELSE watchedFiles[f] = lastDiff.before[f]
        /\ watchedDirs = lastDiff.dirs

\* one call returns a rewritten file, scans a file the filters reject
\* and one that is unchanged or has vanished, and leaves one unscanned
\* or unreturned file with the record it had
C30_Witness ==
    /\ lastDiff.called
    /\ \E f, g, h \in Files :
          /\ f # g /\ g # h /\ f # h
          /\ f \in Range(lastDiff.files)
          /\ lastDiff.before[f] # NoRecord
          /\ g \in Range(lastDiff.visits)
          /\ ~PolicyAccepts(g)
          /\ h \notin Range(lastDiff.files)
          /\ PolicyAccepts(h)
          /\ lastDiff.before[h] # NoRecord

\* C31: Stop() may be called again and from several goroutines: the calls
\* take s.mu in turn, so at most one is between cancel() and the return of
\* wg.Wait(); cancelling a cancelled context leaves it cancelled; the
\* counter is never negative and is 0 as soon as every started poller has
\* exited, so a call made when no poller was ever started can return at
\* once; a call returns with the lock released; and a call that waits
\* after an earlier one has returned does return.
C31_StopIdempotent ==
    /\ [](/\ wg = Cardinality({p \in Pollers :
                                  pollers[p].pc \notin {"none", "exited"}})
          /\ \A t, u \in Threads :
                (threads[t].pc = "wait" /\ threads[u].pc = "wait") => t = u
          /\ \A t \in Threads :
                threads[t].pc = "wait" =>
                    /\ mu = t
                    /\ ctxDone
                    /\ (\A p \in Pollers : pollers[p].pc \in {"none", "exited"})
                       => ENABLED StopWait(t)
          /\ (lastRet.called /\ lastRet.op = "Stop") =>
                /\ lastRet.err = "nil"
                /\ mu = NoThread
                /\ wg = 0
                /\ ctxDone)
    /\ [][ctxDone => ctxDone']_vars
    /\ \A t \in Threads :
          (stopReturned /\ threads[t].pc = "wait") ~> (threads[t].pc = "idle")

\* a Stop() call made after an earlier one has returned waits for a poller
\* that was started in between
C31_Witness ==
    /\ stopReturned
    /\ \E t \in Threads : threads[t].pc = "wait"
    /\ \E p \in Pollers : pollers[p].pc \in {"cycle", "loop"}

\* C32: a SyncDirectory call made after a Stop() call has returned makes
\* no Uploader call.
C32_NoOneShotUploadAfterStop ==
    \A t \in Threads :
        (threads[t].op = "SyncDirectory" /\ threads[t].afterStop)
        => threads[t].pc # "send"

\* C33: every entry of the allow and deny pattern sets the watcher is
\* constructed with is a compiled pattern, and the evaluation of the
\* filters on a path meets no nil pattern.
C33_PatternsCompiled ==
    /\ \A i \in DOMAIN whitelistRegexp : whitelistRegexp[i] # NilRegexp
    /\ \A i \in DOMAIN blacklistRegexp : blacklistRegexp[i] # NilRegexp
    /\ lastFilter.called => ~lastFilter.panic

\* C34: SyncFile called with the empty path returns an error and makes no
\* Uploader call; the loops of syncDirectoryOnce and SyncDirectory pass no
\* empty path of the batch to SyncFile, and go on with the next path: a
\* pass that returns nil has passed to SyncFile the other paths of the
\* batch, in their order.
C34_EmptyPathSkipped ==
    /\ (lastSyncFile.called /\ lastSyncFile.filePath = <<>>) =>
          /\ lastSyncFile.err = "filePath cannot be empty"
          /\ lastSyncFile.bot = <<>>
    /\ lastSend.called => lastSend.path # ""
    /\ \A p \in Pollers :
          /\ "" \notin Range(pollers[p].called)
          /\ pollers[p].pc = "send" => pollers[p].files[pollers[p].idx] # ""
    /\ \A t \in Threads : "" \notin Range(threads[t].called)
    /\ (lastCycle.called /\ lastCycle.err = "nil") =>
          lastCycle.syncFiled = SelectSeq(lastCycle.files, LAMBDA f : f # "")
    /\ (lastRet.called /\ lastRet.op = "SyncDirectory" /\ lastRet.err = "nil") =>
          lastRet.syncFiled = SelectSeq(lastRet.files, LAMBDA f : f # "")

\* a cycle over a batch that begins with the empty path has dispatched
\* the path that follows it
C34_Witness ==
    /\ lastCycle.called
    /\ lastCycle.files = <<"", FileA>>
    /\ lastCycle.syncFiled = <<FileA>>
    /\ lastSend.called
    /\ lastSend.path = FileA

====
